---------------------------- MODULE Spec2Model ----------------------------
(***************************************************************************)
(* The issue reporter dialog (issueReporterMain.ts): the IssueReporter     *)
(* class, its event handlers and the IssueReporterModel it drives.         *)
(*                                                                         *)
(* Values.  A JavaScript value that may be undefined is a sequence of      *)
(* length at most one: Undefined is <<>>, a defined value x is <<x>>.      *)
(* A text (the content of an input element) is a sequence of characters,   *)
(* the empty string being <<>>.                                            *)
(***************************************************************************)
EXTENDS Integers, Sequences, FiniteSets, TLC

\* ------------------------------------------------------------------ bounds
MaxTitleLen == 1      \* longest title typed
MaxDescLen == 1       \* longest description typed
MaxInfo == 2          \* distinct payloads a diagnostic delivery can carry
MaxExt == 2           \* longest list of enabled extensions

\* ------------------------------------------------------------ JS values
Undefined == <<>>
Some(x) == <<x>>
Truthy(o) == o # Undefined

RECURSIVE SeqsUpTo(_, _)
SeqsUpTo(S, n) ==
    IF n = 0 THEN {<<>>}
    ELSE LET shorter == SeqsUpTo(S, n - 1)
         IN  shorter \cup {Append(s, x) : s \in {t \in shorter : Len(t) = n - 1}, x \in S}

TitleValues == SeqsUpTo({"t"}, MaxTitleLen)
DescriptionValues == SeqsUpTo({"d"}, MaxDescLen)
InfoValues == 1..MaxInfo

\* ------------------------------------------------------------ IssueType
\* enum IssueType { Bug, PerformanceIssue, FeatureRequest }
Bug == 0
PerformanceIssue == 1
FeatureRequest == 2
IssueTypes == {Bug, PerformanceIssue, FeatureRequest}

IncludeIds == {"includeSystemInfo", "includeProcessInfo", "includeWorkspaceInfo", "includeExtensions"}
InfoKeys == {"systemInfo", "processInfo", "workspaceInfo"}
InputIds == {"issue-title", "description"}
Blocks == {"system", "process", "workspace", "extensions"}

VARIABLES
    phase,            \* "constructing" (before line 93), "open", "closed" (window closed)
    extensions,       \* configuration.data.enabledExtensions
    data,             \* IssueReporterModel._data
    written,          \* per key: the value of the latest partial holding it (history)
    issueTitle,       \* value of the #issue-title input
    description,      \* value of the #description textarea
    invalid,          \* inputs showing their validation error ('invalid-input')
    inputListeners,   \* the 'input' re-validation listeners of createIssue are installed
    hidden,           \* blocks carrying the class 'hidden'
    timerPending,     \* the initial render of startup() has not run yet
    blockInfo,        \* rendered content of the .block-info elements
    submitDisabled,   \* github-submit-btn.disabled
    focus,            \* the focused element: an input id or "other"
    lastEvent         \* what createIssue() did in the handler that ran last;
                      \* Undefined when that handler did not call it (history)

vars == <<phase, extensions, data, written, issueTitle, description, invalid,
          inputListeners, hidden, timerPending, blockInfo, submitDisabled, focus, lastEvent>>

\* ------------------------------------------------------- IssueReporterModel
\* update(newData): shallow merge, key-wise overwrite.
update(d, partial) ==
    [k \in DOMAIN d |-> IF k \in DOMAIN partial THEN partial[k] ELSE d[k]]

\* the argument of new IssueReporterModel(...); every other key is undefined
InitialData ==
    [issueType |-> Bug,
     includeSystemInfo |-> TRUE,
     includeWorkspaceInfo |-> TRUE,
     includeProcessInfo |-> TRUE,
     includeExtensions |-> TRUE,
     versionInfo |-> Some([vscodeVersion |-> "pkg", os |-> "os"]),
     systemInfo |-> Undefined,
     processInfo |-> Undefined,
     workspaceInfo |-> Undefined,
     issueDescription |-> Undefined,
     numberOfThemeExtesions |-> Undefined,
     enabledNonThemeExtesions |-> Undefined]

\* serialize(): the report body, section by section
serialize(d) ==
    [issueType |-> d.issueType,
     versionInfo |-> d.versionInfo,
     description |-> d.issueDescription,
     systemInfo |-> IF d.includeSystemInfo THEN d.systemInfo ELSE Undefined,
     processInfo |-> IF d.includeProcessInfo THEN d.processInfo ELSE Undefined,
     workspaceInfo |-> IF d.includeWorkspaceInfo THEN d.workspaceInfo ELSE Undefined,
     extensions |-> IF d.includeExtensions
                    THEN Some([listed |-> IF Truthy(d.enabledNonThemeExtesions)
                                          THEN d.enabledNonThemeExtesions[1] ELSE <<>>,
                               themes |-> d.numberOfThemeExtesions])
                    ELSE Undefined]

\* --------------------------------------------------------- extension data
\* a manifest: activationEvents (possibly undefined) and the keys of
\* contributes (possibly undefined)
Manifests ==
    [activationEvents : {Undefined, Some("*")},
     contributes : {Undefined, Some({}), Some({"themes"}), Some({"commands"}),
                    Some({"themes", "commands"})}]

ThemeExtension == [activationEvents |-> Undefined, contributes |-> Some({"themes"})]
RegularExtension == [activationEvents |-> Some("*"), contributes |-> Some({"commands"})]

\* the callback given to collections.groupBy
onlyTheme(ext) ==
    LET manifestKeys == IF Truthy(ext.contributes) THEN ext.contributes[1] ELSE {}
    IN  /\ ~Truthy(ext.activationEvents)
        /\ Cardinality(manifestKeys) = 1
        /\ manifestKeys = {"themes"}

\* collections.groupBy: a group exists only when an element falls in it
groupBy(exts) ==
    LET themes == SelectSeq(exts, LAMBDA e : onlyTheme(e))
        nonThemes == SelectSeq(exts, LAMBDA e : ~onlyTheme(e))
    IN  [themes |-> IF themes = <<>> THEN Undefined ELSE Some(themes),
         nonThemes |-> IF nonThemes = <<>> THEN Undefined ELSE Some(nonThemes)]

\* the partial handleExtensionData gives to update()
extensionPartial(exts) ==
    LET g == groupBy(exts)
        numberOfThemeExtesions ==
            IF Truthy(g.themes) THEN Some(Len(g.themes[1])) ELSE Undefined
    IN  [numberOfThemeExtesions |-> numberOfThemeExtesions,
         enabledNonThemeExtesions |-> g.nonThemes]

\* updateExtensionTable: the rows listed and the theme suffix
updateExtensionTable(exts, numThemeExtensions) ==
    LET themeExclusionStr ==
            IF Truthy(numThemeExtensions) /\ numThemeExtensions # Some(0)
            THEN numThemeExtensions ELSE Undefined
        rows == IF Truthy(exts) THEN exts[1] ELSE <<>>
    IN  [rows |-> rows, suffix |-> themeExclusionStr]


\* ------------------------------------------------------------ DOM helpers
hide(h, el) == h \cup {el}
show(h, el) == h \ {el}

\* renderBlocks as it would be with the process block shown for a bug
renderBlocksBugShowsProcess(h, issueType) ==
    IF issueType = Bug
    THEN show(hide(show(show(h, "system"), "process"), "workspace"), "extensions")
    ELSE IF issueType = PerformanceIssue
    THEN show(show(show(show(h, "system"), "process"), "workspace"), "extensions")
    ELSE hide(hide(hide(hide(h, "system"), "process"), "workspace"), "extensions")

\* renderBlocks: the four blocks shown or hidden for the issue type
renderBlocks(h, issueType) ==
    IF issueType = Bug
    THEN show(hide(hide(show(h, "system"), "process"), "workspace"), "extensions")
    ELSE IF issueType = PerformanceIssue
    THEN show(show(show(show(h, "system"), "process"), "workspace"), "extensions")
    ELSE hide(hide(hide(hide(h, "system"), "process"), "workspace"), "extensions")

\* validateInput: the error of one input shown when its value is empty
validateInput(inv, inputId, value) ==
    IF value = <<>> THEN inv \cup {inputId} ELSE inv \ {inputId}

valueOf(inputId) == IF inputId = "issue-title" THEN issueTitle ELSE description

\* validateInputs as it would be if only the title were validated
validateInputsTitleOnly(inv) ==
    validateInput(inv, "issue-title", valueOf("issue-title"))

\* validateInputs as it would be with `isValid && this.validateInput(elementId)`:
\* the description is skipped once the title is invalid
validateInputsShortCircuit(inv) ==
    IF valueOf("issue-title") = <<>>
    THEN validateInput(inv, "issue-title", valueOf("issue-title"))
    ELSE validateInput(validateInput(inv, "issue-title", valueOf("issue-title")),
                       "description", valueOf("description"))

\* validateInputs: both inputs validated, title first
validateInputs(inv) ==
    validateInput(validateInput(inv, "issue-title", valueOf("issue-title")),
                  "description", valueOf("description"))

\* the update() calls made when element el loses focus (the 'blur' handlers)
blurPartials(el) ==
    IF el = "description" THEN <<[issueDescription |-> Some(description)]>> ELSE <<>>

RECURSIVE updateAll(_, _)
updateAll(d, partials) ==
    IF partials = <<>> THEN d ELSE updateAll(update(d, Head(partials)), Tail(partials))

\* history: the latest partial that held each key
RECURSIVE noted(_, _)
noted(w, partials) ==
    IF partials = <<>> THEN w
    ELSE noted([k \in DOMAIN w |-> IF k \in DOMAIN Head(partials) THEN Head(partials)[k] ELSE w[k]],
               Tail(partials))

encodeURIComponent(body) == <<"encoded", body>>

\* a call of createIssue: the event that made it, what it returned and the
\* argument of shell.openExternal, if it opened one
Event(op, ok, url) == Some([op |-> op, returned |-> ok, url |-> url])

\* updateAllBlocks: updateSystemInfo, updateProcessInfo, updateWorkspaceInfo in
\* turn; Object.keys(undefined) and undefined.forEach raise a TypeError, which
\* ends the handler
updateSystemInfoThrows(state) == ~Truthy(state.systemInfo)
updateProcessInfoThrows(state) == ~Truthy(state.processInfo)
updateAllBlocksThrows(state) == updateSystemInfoThrows(state) \/ updateProcessInfoThrows(state)

updateAllBlocks(b, state) ==
    IF updateSystemInfoThrows(state) THEN b
    ELSE IF updateProcessInfoThrows(state) THEN [b EXCEPT !.system = state.systemInfo]
    ELSE [b EXCEPT !.system = state.systemInfo,
                   !.process = state.processInfo,
                   !.workspace = Some(<<"\n", state.workspaceInfo>>)]

\* ------------------------------------------------------------------ Init
\* the state of the constructor before its last statement (line 93)
InitWith(configs) ==
    /\ phase = "constructing"
    /\ extensions \in configs
    /\ data = InitialData
    /\ written = InitialData
    /\ issueTitle = <<>>
    /\ description = <<>>
    /\ invalid = {}
    /\ inputListeners = FALSE
    /\ hidden = {}
    /\ timerPending = TRUE
    /\ blockInfo = [system |-> Undefined, process |-> Undefined,
                    workspace |-> Undefined, extensions |-> Undefined]
    /\ submitDisabled = TRUE
    /\ focus = "other"
    /\ lastEvent = Undefined

SampleConfigs == {<<>>, <<ThemeExtension, RegularExtension>>}

Init == InitWith(SampleConfigs)

InitExt == InitWith(SeqsUpTo(Manifests, MaxExt))

\* --------------------------------------------------------------- actions
\* handleExtensionData(configuration.data.enabledExtensions), ending the constructor
HandleExtensionData ==
    /\ phase = "constructing"
    /\ LET p == extensionPartial(extensions)
       IN  /\ data' = update(data, p)
           /\ written' = noted(written, <<p>>)
           /\ blockInfo' = [blockInfo EXCEPT !.extensions =
                  Some(updateExtensionTable(p.enabledNonThemeExtesions, p.numberOfThemeExtesions))]
    /\ phase' = "open"
    /\ lastEvent' = Undefined
    /\ UNCHANGED <<extensions, issueTitle, description, invalid, inputListeners, hidden,
                   timerPending, submitDisabled, focus>>

\* the timer of startup(): issueReporter.render()
Render ==
    /\ phase = "open"
    /\ timerPending
    /\ timerPending' = FALSE
    /\ hidden' = renderBlocks(hidden, data.issueType)
    /\ lastEvent' = Undefined
    /\ UNCHANGED <<phase, extensions, data, written, issueTitle, description, invalid,
                   inputListeners, blockInfo, submitDisabled, focus>>

\* the 'change' handler as it would be if it also set the include flags to
\* the sections relevant for the new category
IssueTypeChangeSetsFlags(t) ==
    /\ phase = "open"
    /\ t # data.issueType
    /\ data' = update(data, [issueType |-> t,
                             includeSystemInfo |-> t # FeatureRequest,
                             includeProcessInfo |-> t = PerformanceIssue,
                             includeWorkspaceInfo |-> t = PerformanceIssue,
                             includeExtensions |-> t # FeatureRequest])
    /\ written' = noted(written, <<[issueType |-> t]>>)
    /\ hidden' = renderBlocks(hidden, data'.issueType)
    /\ lastEvent' = Undefined
    /\ UNCHANGED <<phase, extensions, issueTitle, description, invalid, inputListeners,
                   timerPending, blockInfo, submitDisabled, focus>>

\* 'change' on #issue-type
IssueTypeChange(t) ==
    /\ phase = "open"
    /\ t # data.issueType
    /\ data' = update(data, [issueType |-> t])
    /\ written' = noted(written, <<[issueType |-> t]>>)
    /\ hidden' = renderBlocks(hidden, data'.issueType)
    /\ lastEvent' = Undefined
    /\ UNCHANGED <<phase, extensions, issueTitle, description, invalid, inputListeners,
                   timerPending, blockInfo, submitDisabled, focus>>

\* the fact an include checkbox gates
gatedKey(elementId) ==
    CASE elementId = "includeSystemInfo" -> "systemInfo"
      [] elementId = "includeProcessInfo" -> "processInfo"
      [] elementId = "includeWorkspaceInfo" -> "workspaceInfo"
      [] elementId = "includeExtensions" -> "enabledNonThemeExtesions"

\* the 'click' handler as it would be if unchecking also dropped the gated fact
IncludeClickDropsInfo(elementId) ==
    /\ phase = "open"
    /\ data' = update(data, IF data[elementId]
                            THEN (elementId :> FALSE) @@ (gatedKey(elementId) :> Undefined)
                            ELSE (elementId :> TRUE))
    /\ written' = noted(written, <<(elementId :> ~data[elementId])>>)
    /\ lastEvent' = Undefined
    /\ UNCHANGED <<phase, extensions, issueTitle, description, invalid, inputListeners,
                   hidden, timerPending, blockInfo, submitDisabled, focus>>

\* 'click' on one of the four include checkboxes
IncludeClick(elementId) ==
    /\ phase = "open"
    /\ data' = update(data, (elementId :> ~data[elementId]))
    /\ written' = noted(written, <<(elementId :> ~data[elementId])>>)
    /\ lastEvent' = Undefined
    /\ UNCHANGED <<phase, extensions, issueTitle, description, invalid, inputListeners,
                   hidden, timerPending, blockInfo, submitDisabled, focus>>

\* the payloads of 'issueInfoResponse': any non-empty subset of the three keys,
\* holding what the main process gathered (payload v) for each key it carries
InfosOf(values) ==
    {[k \in S |-> Some(v)] : S \in (SUBSET InfoKeys) \ {{}}, v \in values}

Infos == InfosOf(InfoValues)

\* the 'issueInfoResponse' handler as it would be if it merged only the keys
\* the model does not hold yet
IssueInfoResponseKeepsFirst(info) ==
    /\ phase = "open"
    /\ data' = update(data, [k \in {j \in DOMAIN info : ~Truthy(data[j])} |-> info[k]])
    /\ written' = noted(written, <<info>>)
    /\ blockInfo' = updateAllBlocks(blockInfo, data')
    /\ submitDisabled' = IF updateAllBlocksThrows(data') THEN submitDisabled ELSE FALSE
    /\ lastEvent' = Undefined
    /\ UNCHANGED <<phase, extensions, issueTitle, description, invalid, inputListeners,
                   hidden, timerPending, focus>>

\* ipcRenderer.on('issueInfoResponse', ...)
IssueInfoResponse(info) ==
    /\ phase = "open"
    /\ data' = update(data, info)
    /\ written' = noted(written, <<info>>)
    /\ blockInfo' = updateAllBlocks(blockInfo, data')
    /\ submitDisabled' = IF updateAllBlocksThrows(data') THEN submitDisabled ELSE FALSE
    /\ lastEvent' = Undefined
    /\ UNCHANGED <<phase, extensions, issueTitle, description, invalid, inputListeners,
                   hidden, timerPending, focus>>

\* the user edits the focused input; after a failed createIssue the 'input'
\* listeners validate it again
Input(inputId, v) ==
    /\ phase = "open"
    /\ focus = inputId
    /\ v # valueOf(inputId)
    /\ IF inputId = "issue-title"
       THEN issueTitle' = v /\ UNCHANGED description
       ELSE description' = v /\ UNCHANGED issueTitle
    /\ invalid' = IF inputListeners THEN validateInput(invalid, inputId, v) ELSE invalid
    /\ lastEvent' = Undefined
    /\ UNCHANGED <<phase, extensions, data, written, inputListeners, hidden, timerPending,
                   blockInfo, submitDisabled, focus>>

\* the focus moves to another element: 'blur' on the one that had it
FocusChange(target) ==
    /\ phase = "open"
    /\ target # focus
    /\ focus' = target
    /\ data' = updateAll(data, blurPartials(focus))
    /\ written' = noted(written, blurPartials(focus))
    /\ lastEvent' = Undefined
    /\ UNCHANGED <<phase, extensions, issueTitle, description, invalid, inputListeners,
                   hidden, timerPending, blockInfo, submitDisabled>>

\* createIssue(), run with the partials `before` already applied by the event
\* that led to it and `f` the focused element; closeWindow: the caller closes
\* the window when createIssue returns true
createIssue(op, before, f, closeWindow) ==
    LET inv == validateInputs(invalid)
        isValid == inv \cap InputIds = {}
        first == IF "issue-title" \in inv THEN "issue-title" ELSE "description"
        partials == IF isValid \/ f = first THEN before ELSE before \o blurPartials(f)
        issueBody == serialize(updateAll(data, before))
        url == [title |-> issueTitle, body |-> encodeURIComponent(issueBody)]
    IN  /\ invalid' = inv
        /\ data' = updateAll(data, partials)
        /\ written' = noted(written, partials)
        /\ inputListeners' = (inputListeners \/ ~isValid)
        /\ focus' = IF isValid THEN f ELSE first
        /\ lastEvent' = Event(op, isValid, IF isValid THEN Some(url) ELSE Undefined)
        /\ phase' = IF isValid /\ closeWindow THEN "closed" ELSE phase
        /\ UNCHANGED <<extensions, issueTitle, description, hidden, timerPending,
                       blockInfo, submitDisabled>>

\* 'click' on #github-submit-btn: the button takes the focus, then createIssue()
SubmitClick ==
    /\ phase = "open"
    /\ ~submitDisabled
    /\ createIssue("submit-click", blurPartials(focus), "other", FALSE)

\* document.onkeydown with Shift+Enter
ShiftEnter ==
    /\ phase = "open"
    /\ createIssue("shift-enter", <<>>, focus, TRUE)

\* every event of the dialog
Next ==
    \/ HandleExtensionData
    \/ Render
    \/ \E t \in IssueTypes : IssueTypeChange(t)
    \/ \E elementId \in IncludeIds : IncludeClick(elementId)
    \/ \E info \in Infos : IssueInfoResponse(info)
    \/ \E v \in TitleValues : Input("issue-title", v)
    \/ \E v \in DescriptionValues : Input("description", v)
    \/ \E target \in InputIds \cup {"other"} : FocusChange(target)
    \/ SubmitClick
    \/ ShiftEnter

Spec == Init /\ [][Next]_vars

\* the events that write the model; no submission
NextModel ==
    \/ HandleExtensionData
    \/ Render
    \/ \E t \in IssueTypes : IssueTypeChange(t)
    \/ \E elementId \in IncludeIds : IncludeClick(elementId)
    \/ \E info \in Infos : IssueInfoResponse(info)
    \/ \E v \in DescriptionValues : Input("description", v)
    \/ \E target \in {"description", "other"} : FocusChange(target)

SpecModel == InitWith({<<ThemeExtension, RegularExtension>>}) /\ [][NextModel]_vars

\* the events of a submission; the include checkboxes are left alone and
\* every delivery carries the same payload
NextSubmit ==
    \/ HandleExtensionData
    \/ Render
    \/ \E t \in IssueTypes : IssueTypeChange(t)
    \/ \E info \in InfosOf({1}) : IssueInfoResponse(info)
    \/ \E v \in TitleValues : Input("issue-title", v)
    \/ \E v \in DescriptionValues : Input("description", v)
    \/ \E target \in InputIds \cup {"other"} : FocusChange(target)
    \/ SubmitClick
    \/ ShiftEnter

SpecSubmit == InitWith({<<ThemeExtension, RegularExtension>>}) /\ [][NextSubmit]_vars

\* the constructor alone, over every extension list
SpecExt == InitExt /\ [][HandleExtensionData]_vars

\* ================================================================ claims
EmptyInputs == {id \in InputIds : valueOf(id) = <<>>}

\* C1: a submit attempt returns true and opens the issue URL exactly when the
\* title and the description are both non-empty; otherwise it returns false
\* and opens nothing (serialize() is called only to build that URL).
C1_SubmissionGated ==
    lastEvent # Undefined =>
        /\ lastEvent[1].returned <=> (issueTitle # <<>> /\ description # <<>>)
        /\ Truthy(lastEvent[1].url) <=> lastEvent[1].returned

\* a rejected Shift+Enter with only the description missing, on a feature request
C1_Witness ==
    /\ lastEvent # Undefined
    /\ lastEvent[1].op = "shift-enter"
    /\ ~lastEvent[1].returned
    /\ issueTitle # <<>>
    /\ description = <<>>
    /\ data.issueType = FeatureRequest

\* C2: after a submit attempt each input shows its validation error exactly
\* when it is empty, whatever the other input holds and whatever an earlier
\* attempt showed.
C2_PerFieldIndicators ==
    lastEvent # Undefined => invalid = EmptyInputs

\* a retry after the title was filled in: the title's error is gone, the
\* description's is still shown
C2_Witness ==
    /\ lastEvent # Undefined
    /\ inputListeners
    /\ issueTitle # <<>>
    /\ description = <<>>
    /\ invalid = {"description"}

\* C3: a category-change event sets the category and leaves every other key
\* of the model as it was.
C3_CategoryChangeFrame ==
    [][\A t \in IssueTypes :
          IssueTypeChange(t) =>
              /\ data'.issueType = t
              /\ \A k \in (DOMAIN data) \ {"issueType"} : data'[k] = data[k]]_vars

\* the category was changed while every diagnostic fact, a description and an
\* unchecked flag were in the model
C3_Witness ==
    /\ data.issueType = FeatureRequest
    /\ \A k \in InfoKeys : Truthy(data[k])
    /\ Truthy(data.enabledNonThemeExtesions)
    /\ data.issueDescription = Some(<<"d">>)
    /\ ~data.includeProcessInfo

\* C4: a click on an include checkbox negates that flag and leaves every
\* other key of the model as it was; no step erases a diagnostic fact.
C4_IncludeClickFrame ==
    [][/\ \A f \in IncludeIds :
             IncludeClick(f) => data' = [data EXCEPT ![f] = ~data[f]]
       /\ \A k \in InfoKeys : Truthy(data[k]) => Truthy(data'[k])]_vars

\* every flag unchecked with the facts it gates still in the model
C4_Witness ==
    /\ \A f \in IncludeIds : ~data[f]
    /\ \A k \in InfoKeys : Truthy(data[k])
    /\ Truthy(data.enabledNonThemeExtesions)

\* the rule table of the category policy: the blocks hidden for a category
RuleTableHidden(issueType) ==
    CASE issueType = Bug -> {"process", "workspace"}
      [] issueType = PerformanceIssue -> {}
      [] issueType = FeatureRequest -> {"system", "process", "workspace", "extensions"}

\* C5: once rendered, and after every category change, the hidden blocks are
\* those of the rule table's row for the model's category; rendering leaves
\* the include flags alone.
C5_BlockVisibility ==
    /\ [](~timerPending => hidden = RuleTableHidden(data.issueType))
    /\ [][(Render \/ \E t \in IssueTypes : IssueTypeChange(t)) =>
              /\ hidden' = RuleTableHidden(data'.issueType)
              /\ \A f \in IncludeIds : data'[f] = data[f]]_vars

\* rendered as a performance issue after the user unchecked a flag
C5_Witness ==
    /\ ~timerPending
    /\ data.issueType = PerformanceIssue
    /\ hidden = {}
    /\ ~data.includeWorkspaceInfo

\* theme-only: no activation events and "themes" as the single contribution key
ThemeOnly(ext) ==
    ext.activationEvents = Undefined /\ ext.contributes = Some({"themes"})

\* C6: after handleExtensionData the model lists exactly the extensions that
\* are not theme-only, in their order, and counts the theme-only ones, so the
\* two add up to the length of the delivered list.
C6_ThemeExclusion ==
    phase # "constructing" =>
        /\ data.enabledNonThemeExtesions =
               Some(SelectSeq(extensions, LAMBDA e : ~ThemeOnly(e)))
        /\ data.numberOfThemeExtesions =
               Some(Len(SelectSeq(extensions, LAMBDA e : ThemeOnly(e))))

C8_SubmitOutcome ==
    lastEvent # Undefined =>
        (lastEvent[1].returned <=> phase = "closed")

\* C9: the description in the body a successful submit attempt opens is the
\* non-empty content of the description input that passed validation.
C9_SerializedDescription ==
    (lastEvent # Undefined /\ lastEvent[1].returned) =>
        /\ description # <<>>
        /\ lastEvent[1].url[1].body[2].description = Some(description)

\* C10: once a delivery has arrived the submit button is enabled.
C10_DeliveryEnablesSubmit ==
    (\E k \in InfoKeys : Truthy(data[k])) => ~submitDisabled

=============================================================================
